---- MODULE Spec2Model ----
(***************************************************************************)
(* Gate Monitor (gate_monitor.py): the poll loop of main(), the            *)
(* classification client analyze_gate() with its rate-limit retry, the     *)
(* response parser parse_gate_response(), and the MQTT publications.       *)
(*                                                                         *)
(* One step of the model is one blocking call of the program: a capture,   *)
(* one oracle call of one retry attempt, one back-off sleep, one publish.  *)
(* A KeyboardInterrupt may arrive between any two of them.                 *)
(***************************************************************************)
EXTENDS Integers, Sequences, FiniteSets, TLC

(***************************************************************************)
(* Bounds of the model and constants of the program.                       *)
(***************************************************************************)
\* Number of distinct frames the camera can deliver (frames are 1..NumFrames).
NumFrames == 2
\* Longest model listing the oracle service returns.
MaxModels == 2
\* capture_rtsp_frame returns (None, None): no frame.
NoFrame == 0
\* analyze_gate(..., max_retries: int = 3); main never passes another value.
max_retries == 3
\* wait_time = 60 * (attempt + 1)
BackoffUnit == 60
\* config.get("confidence_threshold", 70)
confidence_threshold == 70
\* keyword fallback confidence of parse_gate_response
FallbackConfidence == 50

Frames == 1..NumFrames

(***************************************************************************)
(* The oracle's reply text, described by what parse_gate_response reads    *)
(* from it:                                                                *)
(*   whole    what json.loads yields on the fence-stripped text,           *)
(*   match    what json.loads yields on the first {..."status": "..."...}  *)
(*            substring the regular expression finds in the raw text,      *)
(*   hasOpen / hasClosed   whether the upper-cased text contains the       *)
(*            keyword.                                                     *)
(* A JSON value is [t |-> "invalid"] (JSONDecodeError), [t |-> "nomatch"]  *)
(* (no regex match), [t |-> "nonobj"] (a list, number, string or null) or  *)
(* an object [t |-> "obj", status |-> S, confidence |-> C] with            *)
(*   S = [t |-> "missing" | "str" | "other", v |-> string]                 *)
(*   C = [t |-> "missing" | "int" | "badstr" | "null", v |-> integer].     *)
(***************************************************************************)
StatusStrings == {"OPEN", "CLOSED", "UNKNOWN", "open", "Closed", "unknown", "AJAR"}

\* str.upper() on the status strings of the model.
Upper(s) ==
    CASE s = "open" -> "OPEN"
      [] s = "Closed" -> "CLOSED"
      [] s = "unknown" -> "UNKNOWN"
      [] OTHER -> s

\* str.lower() on the (upper-cased) status strings of the model.
Lower(s) ==
    CASE s = "OPEN" -> "open"
      [] s = "CLOSED" -> "closed"
      [] s = "UNKNOWN" -> "unknown"
      [] s = "AJAR" -> "ajar"
      [] OTHER -> s

Max(a, b) == IF a >= b THEN a ELSE b
Min(a, b) == IF a <= b THEN a ELSE b

\* min(max(confidence, 0), 100)
Clamp_upperonly(c) == Min(c, 100)
Clamp(c) == Min(Max(c, 0), 100)

StrField(s) == [t |-> "str", v |-> s]
MissingStatus == [t |-> "missing", v |-> ""]
OtherStatus == [t |-> "other", v |-> ""]
IntField(c) == [t |-> "int", v |-> c]
MissingConfidence == [t |-> "missing", v |-> 0]
NullConfidence == [t |-> "null", v |-> 0]
BadStrConfidence == [t |-> "badstr", v |-> 0]

JsonObject(s, c) == [t |-> "obj", status |-> s, confidence |-> c]
NotJson == [t |-> "invalid", status |-> MissingStatus, confidence |-> MissingConfidence]
NoMatch == [t |-> "nomatch", status |-> MissingStatus, confidence |-> MissingConfidence]
NonObject == [t |-> "nonobj", status |-> MissingStatus, confidence |-> MissingConfidence]

\* The text is exactly the JSON object {"status": s, "confidence": c}, s a string.
JsonReply(s, c) ==
    [whole |-> JsonObject(StrField(s), c),
     match |-> IF Upper(s) \in {"OPEN", "CLOSED", "UNKNOWN"}
               THEN JsonObject(StrField(s), c) ELSE NoMatch,
     hasOpen |-> Upper(s) = "OPEN",
     hasClosed |-> Upper(s) = "CLOSED"]

\* The text is prose without any JSON object.
ProseReply(o, c) ==
    [whole |-> NotJson, match |-> NoMatch, hasOpen |-> o, hasClosed |-> c]

\* The text is a JSON object whose "status" is absent or is not a string;
\* o, c: the keywords occur somewhere in it.
ObjectReply(st, conf, o, c) ==
    [whole |-> JsonObject(st, conf), match |-> NoMatch, hasOpen |-> o, hasClosed |-> c]

\* The text is prose around the JSON object {"status": s, "confidence": conf},
\* s one of the three status words in any case; o, c: the prose has the keywords.
EmbeddedReply(s, conf, o, c) ==
    [whole |-> NotJson, match |-> JsonObject(StrField(s), conf),
     hasOpen |-> o \/ Upper(s) = "OPEN", hasClosed |-> c \/ Upper(s) = "CLOSED"]

\* The text is prose around a {..."status": "..."...} that json.loads rejects.
BrokenEmbeddedReply(s, o, c) ==
    [whole |-> NotJson, match |-> NotJson,
     hasOpen |-> o \/ Upper(s) = "OPEN", hasClosed |-> c \/ Upper(s) = "CLOSED"]

\* The text is JSON but no object (a list, a string, a number, null).
NonObjectReply(o, c) ==
    [whole |-> NonObject, match |-> NoMatch, hasOpen |-> o, hasClosed |-> c]

(***************************************************************************)
(* parse_gate_response.  The value is <<"ok", status, confidence>> or      *)
(* <<"raise", "", 0>> when an exception leaves the function.               *)
(***************************************************************************)
Raise == <<"raise", "", 0>>
Ok(s, c) == <<"ok", s, c>>

\* data.get("status", "UNKNOWN").upper(): "attr" stands for AttributeError.
GetStatus(obj) ==
    CASE obj.status.t = "missing" -> "UNKNOWN"
      [] obj.status.t = "str" -> Upper(obj.status.v)
      [] OTHER -> "attr"

\* int(data.get("confidence", 0)): <<"int", n>>, <<"value", 0>> for ValueError,
\* <<"type", 0>> for TypeError.
GetConfidence(obj) ==
    CASE obj.confidence.t = "missing" -> <<"int", 0>>
      [] obj.confidence.t = "int" -> <<"int", obj.confidence.v>>
      [] obj.confidence.t = "badstr" -> <<"value", 0>>
      [] OTHER -> <<"type", 0>>

\* Last resort: look for status keywords.
KeywordFallback(r) ==
    IF r.hasOpen THEN Ok("open", FallbackConfidence)
    ELSE IF r.hasClosed THEN Ok("closed", FallbackConfidence)
    ELSE Ok("unknown", 0)

\* Fallback: look for JSON-like pattern in the text.
EmbeddedJson(r) ==
    IF r.match.t = "obj"
    THEN IF GetStatus(r.match) = "attr" THEN Raise
         ELSE LET c == GetConfidence(r.match) IN
              CASE c[1] = "int" -> Ok(Lower(GetStatus(r.match)), Clamp(c[2]))
                [] c[1] = "value" -> KeywordFallback(r)
                [] OTHER -> Raise
    ELSE KeywordFallback(r)

parse_gate_response(r) ==
    IF r.whole.t = "obj"
    THEN IF GetStatus(r.whole) = "attr" THEN EmbeddedJson(r)
         ELSE LET c == GetConfidence(r.whole) IN
              CASE c[1] = "int" ->
                     IF GetStatus(r.whole) \in {"OPEN", "CLOSED", "UNKNOWN"}
                     THEN Ok(Lower(GetStatus(r.whole)), Clamp(c[2]))
                     ELSE EmbeddedJson(r)
                [] c[1] = "value" -> EmbeddedJson(r)
                [] OTHER -> Raise
    ELSE EmbeddedJson(r)

\* if confidence < confidence_threshold: return "unknown", confidence
\* (t is the confidence_threshold parameter of analyze_gate)
GateAt_inclusive(s, c, t) == IF c <= t THEN <<"unknown", c>> ELSE <<s, c>>
GateAt(s, c, t) == IF c < t THEN <<"unknown", c>> ELSE <<s, c>>

\* The gating with the threshold main() passes.
Gate(s, c) == GateAt(s, c, confidence_threshold)

\* The value analyze_gate returns for error.
ErrorResult == <<"error", 0>>

(***************************************************************************)
(* Outcomes of one client.models.generate_content call.                    *)
(***************************************************************************)
\* An exception, by what str(e) contains.
Exceptions ==
    {[has429 |-> TRUE, hasResourceExhausted |-> FALSE],
     [has429 |-> FALSE, hasResourceExhausted |-> TRUE],
     [has429 |-> FALSE, hasResourceExhausted |-> FALSE]}

\* if "429" in error_str or "RESOURCE_EXHAUSTED" in error_str
IsRateLimitTreatAll(e) == TRUE
IsRateLimit(e) == e.has429 \/ e.hasResourceExhausted

\* wait_time = 60 * (attempt + 1), attempt counted from 0
wait_time_unshifted(attempt) == BackoffUnit * attempt
wait_time(attempt) == BackoffUnit * (attempt + 1)

\* The replies the oracle gives in the poll loop.
Replies ==
    { JsonReply("OPEN", IntField(90)),
      JsonReply("open", IntField(85)),
      JsonReply("OPEN", IntField(40)),
      JsonReply("CLOSED", IntField(150)),
      JsonReply("UNKNOWN", IntField(75)),
      JsonReply("OPEN", NullConfidence),
      ProseReply(TRUE, FALSE) }

Outcomes ==
    [kind : {"raise"}, e : Exceptions, r : {ProseReply(FALSE, FALSE)}]
    \cup [kind : {"reply"}, e : {[has429 |-> FALSE, hasResourceExhausted |-> FALSE]},
          r : Replies]

\* No function of the classifier client is run on its own.
NoArg == [fn |-> "none", r |-> ProseReply(FALSE, FALSE), threshold |-> 0]

NoOutcome ==
    [kind |-> "none", e |-> [has429 |-> FALSE, hasResourceExhausted |-> FALSE],
     r |-> ProseReply(FALSE, FALSE)]

(***************************************************************************)
(* find_best_model.  A model name is the sequence of its hyphen-separated  *)
(* parts, "models/gemini-2.5-flash" being <<"models/", "gemini", "2.5",    *)
(* "flash">>; str.startswith is the prefix test on these sequences (no     *)
(* part of a name of the model is a proper prefix of another part).        *)
(***************************************************************************)
PREFERRED_MODELS ==
    << <<"gemini", "3", "flash">>,
       <<"gemini", "2.5", "flash">>,
       <<"gemini", "2.0", "flash">>,
       <<"gemini", "1.5", "flash">>,
       <<"gemini", "3", "pro">>,
       <<"gemini", "2.5", "pro">>,
       <<"gemini", "2.0", "pro">>,
       <<"gemini", "1.5", "pro">>,
       <<"gemini", "pro">> >>

\* The names the service may list.
ModelNames ==
    { <<"models/", "gemini", "3", "flash">>,
      <<"models/", "gemini", "2.5", "flash", "lite">>,
      <<"gemini", "2.5", "flash">>,
      <<"models/", "gemini", "1.5", "pro">>,
      <<"gemini", "pro", "vision">>,
      <<"models/", "gemini", "exp", "pro">>,
      <<"Gemini", "Ultra">>,
      <<"models/", "gemini", "nano">>,
      <<"models/", "text", "embedding", "004">> }

\* find_best_model returns None.
NoModel == <<>>

\* str.lower() on the parts of the model names.
LowerPart(t) ==
    CASE t = "Gemini" -> "gemini"
      [] t = "Ultra" -> "ultra"
      [] OTHER -> t

\* if model_name.startswith("models/"): model_name = model_name[7:]
StripModels(n) == IF n # <<>> /\ Head(n) = "models/" THEN Tail(n) ELSE n

\* "gemini" in model_name.lower()
HasGemini(n) == \E i \in 1..Len(n) : LowerPart(n[i]) = "gemini"

\* "gemini" in available.lower() and "pro" in available.lower()
HasPro(n) == HasGemini(n) /\ \E i \in 1..Len(n) : LowerPart(n[i]) = "pro"

\* available.startswith(preferred) or available == preferred
StartsWith(available, preferred) ==
    /\ Len(preferred) <= Len(available)
    /\ SubSeq(available, 1, Len(preferred)) = preferred

RECURSIVE MapStrip(_)
MapStrip(names) ==
    IF names = <<>> THEN <<>>
    ELSE <<StripModels(Head(names))>> \o MapStrip(Tail(names))

\* The available_models list built from the listing.
AvailableModels(names) == SelectSeq(MapStrip(names), HasGemini)

\* for available in available_models: if available.startswith(preferred): return
FirstStartingWith(available, preferred) ==
    available[CHOOSE i \in 1..Len(available) :
                 /\ StartsWith(available[i], preferred)
                 /\ \A j \in 1..(i - 1) : ~StartsWith(available[j], preferred)]

\* for available in available_models: if ... "pro" in available.lower(): return
FirstPro(available) ==
    available[CHOOSE i \in 1..Len(available) :
                 HasPro(available[i]) /\ \A j \in 1..(i - 1) : ~HasPro(available[j])]

\* A listing: not asked for yet, the call raised, or the names it gave.
NoListing == [t |-> "none", names |-> <<>>]
ListingFailed == [t |-> "raise", names |-> <<>>]
Listed(names) == [t |-> "ok", names |-> names]

\* The fallback after the preference list: a "pro" model, else any model.
Fallback(available) ==
    IF \E i \in 1..Len(available) : HasPro(available[i])
    THEN FirstPro(available)
    ELSE IF available # <<>> THEN available[1]
    ELSE NoModel

\* The preference loop: the first preferred entry some available model
\* starts with, and the first available model that starts with it.
PreferredMatch_lastentry(available) ==
    LET Matches(p) == \E i \in 1..Len(available) : StartsWith(available[i], p)
        p == CHOOSE q \in 1..Len(PREFERRED_MODELS) :
                 /\ Matches(PREFERRED_MODELS[q])
                 /\ \A k \in (q + 1)..Len(PREFERRED_MODELS) : ~Matches(PREFERRED_MODELS[k])
    IN  FirstStartingWith(available, PREFERRED_MODELS[p])
PreferredMatch(available) ==
    LET Matches(p) == \E i \in 1..Len(available) : StartsWith(available[i], p)
        p == CHOOSE q \in 1..Len(PREFERRED_MODELS) :
                 /\ Matches(PREFERRED_MODELS[q])
                 /\ \A k \in 1..(q - 1) : ~Matches(PREFERRED_MODELS[k])
    IN  FirstStartingWith(available, PREFERRED_MODELS[p])

find_best_model(l) ==
    IF l.t # "ok" THEN NoModel
    ELSE LET available == AvailableModels(l.names) IN
         IF \E q \in 1..Len(PREFERRED_MODELS), i \in 1..Len(available) :
                StartsWith(available[i], PREFERRED_MODELS[q])
         THEN PreferredMatch(available)
         ELSE Fallback(available)

\* Every listing of at most MaxModels names, and the failed listing.
RECURSIVE ListsOf(_)
ListsOf(n) ==
    IF n = 0 THEN {<<>>}
    ELSE LET shorter == ListsOf(n - 1) IN
         shorter \cup {Append(l, m) : l \in {s \in shorter : Len(s) = n - 1},
                                       m \in ModelNames}
Listings == {ListingFailed} \cup {Listed(names) : names \in ListsOf(MaxModels)}

\* The listings met while the poll loop is studied.
PollListings ==
    {ListingFailed, Listed(<<>>), Listed(<< <<"models/", "gemini", "2.5", "flash">> >>)}

(***************************************************************************)
(* State.                                                                  *)
(***************************************************************************)
VARIABLES
    pc,               \* position of main()
    config,           \* load_config(): the two required keys
    listing,          \* what client.models.list() gave find_best_model
    model_name,       \* find_best_model(): a model name, or NoModel for None
    exit_code,        \* -1 while the process runs
    liveness,         \* messages published on {prefix}/status
    interrupted_at,   \* <<pc, apc>> where a KeyboardInterrupt arrived, or <<>>
    full_frame, gate_crop, status, confidence,           \* 1st capture, result
    full_frame_2, gate_crop_2, status_2, confidence_2,   \* confirmation
    full_frame_3, gate_crop_3, status_3, confidence_3,   \* tiebreak
    latest_snapshot,  \* the frame in {camera}_latest.jpg
    apc,              \* position inside analyze_gate: "idle", "call", "backoff", "done"
    attempt,          \* loop variable of analyze_gate, from 0
    sleeps,           \* the time.sleep calls of the current analyze_gate call
    calls,            \* generate_content calls of the current analyze_gate call
    outcome,          \* outcome of the last generate_content call
    \* The record of the current cycle, kept until its inter-cycle sleep ends:
    published,        \* messages published in the current cycle, in order
    frames,           \* what each capture of the current cycle returned
    results,          \* what each analyze_gate call of the current cycle returned
    oracle_calls,     \* generate_content calls of the current cycle
    \* A function of the classifier client run on its own (ClassifierSpec):
    arg,              \* its arguments
    ret               \* what it returned, <<>> before it has run

startup == <<config, listing, model_name, exit_code, interrupted_at>>
first == <<full_frame, gate_crop, status, confidence>>
second == <<full_frame_2, gate_crop_2, status_2, confidence_2>>
third == <<full_frame_3, gate_crop_3, status_3, confidence_3>>
snapshot == <<latest_snapshot>>
client == <<apc, attempt, sleeps, calls, outcome>>
cycle == <<published, frames, results, oracle_calls>>
unit == <<arg, ret>>
vars == <<pc, startup, liveness, first, second, third, snapshot, client, cycle, unit>>

\* The positions of main() inside its try block.
LoopPcs ==
    {"capture1", "analyze1", "capture2", "analyze2", "capture3", "analyze3",
     "publish", "alert", "sleep"}
AnalyzePcs == {"analyze1", "analyze2", "analyze3"}

\* The process starts: nothing is loaded, nothing is published.
ProcessStart ==
    /\ pc = "load_config"
    /\ config = [rtsp_url |-> "", gemini_api_key |-> ""]
    /\ listing = NoListing
    /\ model_name = NoModel
    /\ exit_code = -1
    /\ liveness = <<>>
    /\ interrupted_at = <<>>
    /\ full_frame = NoFrame /\ gate_crop = NoFrame
    /\ status = "unset" /\ confidence = 0
    /\ full_frame_2 = NoFrame /\ gate_crop_2 = NoFrame
    /\ status_2 = "unset" /\ confidence_2 = 0
    /\ full_frame_3 = NoFrame /\ gate_crop_3 = NoFrame
    /\ status_3 = "unset" /\ confidence_3 = 0
    /\ latest_snapshot = NoFrame
    /\ apc = "idle" /\ attempt = 0 /\ sleeps = <<>> /\ calls = 0
    /\ outcome = NoOutcome
    /\ published = <<>> /\ frames = <<>> /\ results = <<>> /\ oracle_calls = 0

Init == ProcessStart /\ arg = NoArg /\ ret = <<>>

(***************************************************************************)
(* Startup of main().                                                      *)
(***************************************************************************)
\* rtsp_url and gemini_api_key are required: sys.exit(1) when one is empty.
ConfigMissing_urlonly(c) == c.rtsp_url = ""
ConfigMissing(c) == c.rtsp_url = "" \/ c.gemini_api_key = ""

LoadConfig ==
    /\ pc = "load_config"
    /\ \E url \in {"", "rtsp://camera"}, key \in {"", "key"} :
         /\ config' = [rtsp_url |-> url, gemini_api_key |-> key]
         /\ IF ConfigMissing(config')
            THEN pc' = "exited" /\ exit_code' = 1
            ELSE pc' = "find_model" /\ exit_code' = exit_code
    /\ UNCHANGED <<listing, model_name, interrupted_at, liveness, first, second, third,
                   snapshot, client, cycle, unit>>

\* model_name = find_best_model(gemini_client); sys.exit(1) when it is None.
\* l is what client.models.list() gives.
SelectModel(l) ==
    /\ listing' = l
    /\ model_name' = find_best_model(l)
    /\ IF model_name' = NoModel
       THEN pc' = "exited" /\ exit_code' = 1
       ELSE pc' = "connect" /\ exit_code' = exit_code

FindModel ==
    /\ pc = "find_model"
    /\ \E l \in PollListings : SelectModel(l)
    /\ UNCHANGED <<config, interrupted_at, liveness, first, second, third, snapshot,
                   client, cycle, unit>>

\* publish_addon_status
publish_addon_status(s) == liveness' = Append(liveness, s)

\* load_reference_images, create_mqtt_client, publish_addon_status("online")
Connect ==
    /\ pc = "connect"
    /\ publish_addon_status("online")
    /\ pc' = "startup_delay"
    /\ UNCHANGED <<startup, first, second, third, snapshot, client, cycle>>
    /\ UNCHANGED unit

\* time.sleep(5) returns and the try block is entered.
StartupDelay ==
    /\ pc = "startup_delay"
    /\ pc' = "capture1"
    /\ UNCHANGED <<startup, liveness, first, second, third, snapshot, client, cycle>>
    /\ UNCHANGED unit

(***************************************************************************)
(* The decisions of one poll cycle, as <<status, confidence, full_frame>>  *)
(* or as the next position of main().                                      *)
(***************************************************************************)
\* if full_frame and gate_crop: ... else: "Skipping analysis due to capture failure"
NextAfterCapture1_analyze(f) == "analyze1"
NextAfterCapture1(f) == IF f # NoFrame THEN "analyze1" ELSE "sleep"

\* if status != "error": if status == "open": confirm ... publish
NextAfterFirst_trusting(s) == IF s = "error" THEN "sleep" ELSE "publish"
NextAfterFirst_confirmall(s) == IF s = "error" THEN "sleep" ELSE "capture2"
NextAfterFirst(s) ==
    IF s = "error" THEN "sleep"
    ELSE IF s = "open" THEN "capture2"
    ELSE "publish"

\* Confirmation capture failed: status = "unknown"
ConfirmCaptureFailed_keep(s1, c1, f1) == <<s1, c1, f1>>
ConfirmCaptureFailed(s1, c1, f1) == <<"unknown", c1, f1>>

\* Both agree: status = "open"; full_frame = full_frame_2
Confirmed_firstframe(c1, f1, c2, f2) == <<"open", c1, f1>>
Confirmed(c1, f1, c2, f2) == <<"open", c1, f2>>

\* status_2 == "open" ends the cycle's captures; anything else asks for a tiebreak
NextAfterSecond_tiebreakall(s2) == "capture3"
NextAfterSecond(s2) == IF s2 = "open" THEN "publish" ELSE "capture3"

\* status = status_3; confidence = confidence_3; full_frame = full_frame_3
Tiebreak_second(s2, c2, f2, s3, c3, f3) == <<s2, c2, f2>>
Tiebreak(s2, c2, f2, s3, c3, f3) == <<s3, c3, f3>>

\* Tiebreaker capture failed: status = status_2; confidence = confidence_2;
\* full_frame = full_frame_2
TiebreakCaptureFailed_unknown(s2, c2, f2) == <<"unknown", c2, f2>>
TiebreakCaptureFailed(s2, c2, f2) == <<s2, c2, f2>>

\* if status == "open": save_snapshot, publish_alert
ShouldAlert_firstonly(s) == s = "open" /\ latest_snapshot = NoFrame
ShouldAlert(s) == s = "open"

(***************************************************************************)
(* The poll loop of main().                                                *)
(***************************************************************************)
\* The final decision of the cycle is assigned to status, confidence, full_frame.
Decide(d) == status' = d[1] /\ confidence' = d[2] /\ full_frame' = d[3]

\* No call of analyze_gate is in progress and the last one's locals are gone.
LeaveAnalyze ==
    /\ apc' = "idle" /\ attempt' = 0 /\ sleeps' = <<>> /\ calls' = 0
    /\ outcome' = NoOutcome

\* analyze_gate is entered: for attempt in range(max_retries)
EnterAnalyze ==
    /\ apc' = "call" /\ attempt' = 0 /\ sleeps' = <<>> /\ calls' = 0
    /\ outcome' = NoOutcome

\* capture_rtsp_frame: (None, None), or the full frame and its gate crop.
capture_rtsp_frame == Frames \cup {NoFrame}

\* The locals of main().  When an iteration of the loop starts they hold the
\* previous iteration's values; each is assigned in the iteration before it
\* is read (full_frame, gate_crop at line 477; status, confidence at 481; the
\* _2 locals at 492-494; the _3 locals at 506-508), so the previous values
\* cannot reach any later step and the model forgets them at the loop's back
\* edge.
ForgetLocals ==
    /\ full_frame' = NoFrame /\ gate_crop' = NoFrame
    /\ status' = "unset" /\ confidence' = 0
    /\ full_frame_2' = NoFrame /\ gate_crop_2' = NoFrame
    /\ status_2' = "unset" /\ confidence_2' = 0
    /\ full_frame_3' = NoFrame /\ gate_crop_3' = NoFrame
    /\ status_3' = "unset" /\ confidence_3' = 0

\* "Starting gate check..."; full_frame, gate_crop = capture_rtsp_frame(rtsp_url)
Capture1 ==
    /\ pc = "capture1"
    /\ \E f \in capture_rtsp_frame :
         /\ full_frame' = f /\ gate_crop' = f
         /\ frames' = Append(frames, f)
         /\ pc' = NextAfterCapture1(f)
    /\ IF pc' = "analyze1" THEN EnterAnalyze ELSE LeaveAnalyze
    /\ UNCHANGED <<startup, liveness, status, confidence, second, third, snapshot,
                   published, results, oracle_calls>>
    /\ UNCHANGED unit

\* 2nd check - immediate
Capture2 ==
    /\ pc = "capture2"
    /\ \E f \in capture_rtsp_frame :
         /\ full_frame_2' = f /\ gate_crop_2' = f
         /\ frames' = Append(frames, f)
         /\ IF f # NoFrame
            THEN /\ pc' = "analyze2"
                 /\ EnterAnalyze
                 /\ UNCHANGED <<status, confidence, full_frame>>
            ELSE /\ pc' = "publish"
                 /\ Decide(ConfirmCaptureFailed(status, confidence, full_frame))
                 /\ LeaveAnalyze
    /\ UNCHANGED <<startup, liveness, gate_crop, status_2, confidence_2, third,
                   snapshot, published, results, oracle_calls>>
    /\ UNCHANGED unit

\* Disagreement (OPEN vs CLOSED/UNKNOWN) - tiebreaker
Capture3 ==
    /\ pc = "capture3"
    /\ \E f \in capture_rtsp_frame :
         /\ full_frame_3' = f /\ gate_crop_3' = f
         /\ frames' = Append(frames, f)
         /\ IF f # NoFrame
            THEN /\ pc' = "analyze3"
                 /\ EnterAnalyze
                 /\ UNCHANGED <<status, confidence, full_frame>>
            ELSE /\ pc' = "publish"
                 /\ Decide(TiebreakCaptureFailed(status_2, confidence_2, full_frame_2))
                 /\ LeaveAnalyze
    /\ UNCHANGED <<startup, liveness, gate_crop, second, status_3, confidence_3,
                   snapshot, published, results, oracle_calls>>
    /\ UNCHANGED unit

\* analyze_gate returns res to main(), which goes on to its next blocking call.
Return(res) ==
    /\ apc' = "done"
    /\ results' = Append(results, res)
    /\ CASE pc = "analyze1" ->
              /\ status' = res[1] /\ confidence' = res[2]
              /\ pc' = NextAfterFirst(res[1])
              /\ UNCHANGED <<full_frame, gate_crop, second, third>>
         [] pc = "analyze2" ->
              /\ status_2' = res[1] /\ confidence_2' = res[2]
              /\ pc' = NextAfterSecond(res[1])
              /\ IF pc' = "publish"
                 THEN Decide(Confirmed(confidence, full_frame, res[2], full_frame_2))
                 ELSE UNCHANGED <<status, confidence, full_frame>>
              /\ UNCHANGED <<gate_crop, full_frame_2, gate_crop_2, third>>
         [] pc = "analyze3" ->
              /\ status_3' = res[1] /\ confidence_3' = res[2]
              /\ pc' = "publish"
              /\ Decide(Tiebreak(status_2, confidence_2, full_frame_2,
                                    res[1], res[2], full_frame_3))
              /\ UNCHANGED <<gate_crop, second, full_frame_3, gate_crop_3>>

\* What str(e) of the TypeError or AttributeError leaving parse_gate_response
\* contains: neither "429" nor "RESOURCE_EXHAUSTED".
ParseException == [has429 |-> FALSE, hasResourceExhausted |-> FALSE]

\* One pass of the try block of analyze_gate: generate_content, then
\* parse_gate_response and the threshold; or the except branch.
OracleCall ==
    /\ pc \in AnalyzePcs /\ apc = "call"
    /\ \E o \in Outcomes :
         LET p == parse_gate_response(o.r)
             failed == o.kind = "raise" \/ p = Raise
             e == IF o.kind = "raise" THEN o.e ELSE ParseException
         IN  /\ outcome' = o
             /\ calls' = calls + 1
             /\ oracle_calls' = oracle_calls + 1
             /\ IF ~failed
                THEN /\ Return(Gate(p[2], p[3]))
                     /\ UNCHANGED <<attempt, sleeps>>
                ELSE IF IsRateLimit(e)
                THEN /\ apc' = "backoff"
                     /\ sleeps' = Append(sleeps, wait_time(attempt))
                     /\ UNCHANGED <<pc, attempt, first, second, third, results>>
                ELSE /\ Return(ErrorResult)
                     /\ UNCHANGED <<attempt, sleeps>>
    /\ UNCHANGED <<startup, liveness, snapshot, published, frames>>
    /\ UNCHANGED unit

\* time.sleep(wait_time) returns; the for loop goes on or is exhausted:
\* "Max retries exceeded due to rate limiting"
BackoffWake ==
    /\ pc \in AnalyzePcs /\ apc = "backoff"
    /\ attempt' = attempt + 1
    /\ IF attempt' < max_retries
       THEN /\ apc' = "call"
            /\ UNCHANGED <<pc, first, second, third, results>>
       ELSE Return(ErrorResult)
    /\ UNCHANGED <<startup, liveness, snapshot, sleeps, calls, outcome,
                   published, frames, oracle_calls>>
    /\ UNCHANGED unit

\* publish_status(mqtt_client, topic_prefix, camera_name, status)
publish_status(s) ==
    published' = Append(published, [topic |-> "status", payload |-> s])

\* publish_alert(mqtt_client, topic_prefix, camera_name, snapshot_path)
publish_alert(path) ==
    published' = Append(published, [topic |-> "alert", payload |-> path])

Publish ==
    /\ pc = "publish"
    /\ publish_status(status)
    /\ pc' = IF ShouldAlert(status) THEN "alert" ELSE "sleep"
    /\ LeaveAnalyze
    /\ UNCHANGED <<startup, liveness, first, second, third, snapshot,
                   frames, results, oracle_calls>>
    /\ UNCHANGED unit

\* save_snapshot returns the /local/ path, or None when writing failed.
save_snapshot(written) == IF written THEN "/local/gate-monitor/latest.jpg" ELSE "None"

\* snapshot_path = save_snapshot(full_frame, camera_name); publish_alert(...)
Alert ==
    /\ pc = "alert"
    /\ \E written \in BOOLEAN :
         LET snapshot_path == save_snapshot(written) IN
         /\ latest_snapshot' = IF written THEN full_frame ELSE latest_snapshot
         /\ publish_alert(snapshot_path)
    /\ pc' = "sleep"
    /\ UNCHANGED <<startup, liveness, first, second, third, client,
                   frames, results, oracle_calls>>
    /\ UNCHANGED unit

\* time.sleep(check_interval) returns and the loop starts its next iteration:
\* the record of the finished cycle is closed.
Sleep ==
    /\ pc = "sleep"
    /\ pc' = "capture1"
    /\ LeaveAnalyze
    /\ ForgetLocals
    /\ published' = <<>> /\ frames' = <<>> /\ results' = <<>> /\ oracle_calls' = 0
    /\ UNCHANGED <<startup, liveness, snapshot>>
    /\ UNCHANGED unit

\* The process has ended: its locals are gone.
ProcessGone ==
    /\ ForgetLocals
    /\ LeaveAnalyze

\* KeyboardInterrupt inside the try block, at any blocking call of the loop:
\* except KeyboardInterrupt: "Shutting down..."; finally:
\* publish_addon_status("offline"); loop_stop(); disconnect(); and the process ends.
Interrupt ==
    /\ pc \in LoopPcs
    /\ interrupted_at' = <<pc, apc>>
    /\ publish_addon_status("offline")
    /\ pc' = "done"
    /\ exit_code' = 0
    /\ ProcessGone
    /\ UNCHANGED <<config, listing, model_name, snapshot, cycle, unit>>

\* KeyboardInterrupt before the try block is entered (time.sleep(5) and the
\* startup calls are outside it): nothing catches it, finally does not run.
InterruptStartup ==
    /\ pc \in {"find_model", "connect", "startup_delay"}
    /\ interrupted_at' = <<pc, apc>>
    /\ pc' = "killed"
    /\ exit_code' = 130
    /\ UNCHANGED <<config, listing, model_name, liveness, first, second, third,
                   snapshot, client, cycle, unit>>

Next ==
    \/ LoadConfig
    \/ FindModel
    \/ Connect
    \/ StartupDelay
    \/ Capture1
    \/ Capture2
    \/ Capture3
    \/ OracleCall
    \/ BackoffWake
    \/ Publish
    \/ Alert
    \/ Sleep
    \/ Interrupt
    \/ InterruptStartup

Spec == Init /\ [][Next]_vars

\* main() is one sequential thread of blocking calls: the call the cycle is
\* in returns (a capture, an oracle call, a back-off sleep, a publish).
CycleStep ==
    \/ Capture1 \/ Capture2 \/ Capture3
    \/ OracleCall \/ BackoffWake
    \/ Publish \/ Alert

LiveSpec == Spec /\ WF_vars(CycleStep)

(***************************************************************************)
(* The startup of main() with every model listing.                         *)
(***************************************************************************)
FindModelAny ==
    /\ pc = "find_model"
    /\ \E l \in Listings : SelectModel(l)
    /\ UNCHANGED <<config, interrupted_at, liveness, first, second, third, snapshot,
                   client, cycle, unit>>

StartupNext ==
    \/ LoadConfig
    \/ FindModelAny
    \/ Connect
    \/ StartupDelay
    \/ InterruptStartup

StartupSpec == Init /\ [][StartupNext]_vars

(***************************************************************************)
(* The classifier client on its own: parse_gate_response on a reply text,  *)
(* and the body of one attempt of analyze_gate (parse, then gate) on a     *)
(* reply and a confidence_threshold.                                       *)
(***************************************************************************)
ConfidenceValues == {0 - 10, 0, 49, 50, 69, 70, 71, 100, 150}
ConfidenceFields ==
    {IntField(c) : c \in ConfidenceValues}
    \cup {MissingConfidence, NullConfidence, BadStrConfidence}
Thresholds == {0, 50, 70, 101}

ReplyTexts ==
    {JsonReply(s, c) : s \in StatusStrings, c \in ConfidenceFields}
    \cup {ObjectReply(st, c, o, k) : st \in {MissingStatus, OtherStatus},
                                     c \in {IntField(150), NullConfidence, BadStrConfidence},
                                     o \in BOOLEAN, k \in BOOLEAN}
    \cup {EmbeddedReply(s, c, o, k) : s \in {"OPEN", "Closed", "unknown"},
                                      c \in {IntField(0 - 10), IntField(85), MissingConfidence,
                                             NullConfidence, BadStrConfidence},
                                      o \in BOOLEAN, k \in BOOLEAN}
    \cup {BrokenEmbeddedReply(s, o, k) : s \in {"OPEN", "Closed", "unknown"},
                                        o \in BOOLEAN, k \in BOOLEAN}
    \cup {ProseReply(o, k) : o \in BOOLEAN, k \in BOOLEAN}
    \cup {NonObjectReply(o, k) : o \in BOOLEAN, k \in BOOLEAN}

ClassifierArgs ==
    [fn : {"parse_gate_response"}, r : ReplyTexts, threshold : {confidence_threshold}]
    \cup [fn : {"analyze_gate"}, r : ReplyTexts, threshold : Thresholds]

\* One attempt of analyze_gate whose generate_content call returned r:
\* the parsed and gated result, or ("error", 0) when the parser raises.
AttemptOn(r, t) ==
    LET p == parse_gate_response(r) IN
    IF p = Raise THEN ErrorResult ELSE GateAt(p[2], p[3], t)

ClassifierInit == ProcessStart /\ arg \in ClassifierArgs /\ ret = <<>>

ParseStep ==
    /\ arg.fn = "parse_gate_response" /\ ret = <<>>
    /\ ret' = parse_gate_response(arg.r)
    /\ UNCHANGED <<pc, startup, liveness, first, second, third, snapshot, client, cycle, arg>>

AnalyzeStep ==
    /\ arg.fn = "analyze_gate" /\ ret = <<>>
    /\ ret' = AttemptOn(arg.r, arg.threshold)
    /\ UNCHANGED <<pc, startup, liveness, first, second, third, snapshot, client, cycle, arg>>

ClassifierNext == ParseStep \/ AnalyzeStep

ClassifierSpec == ClassifierInit /\ [][ClassifierNext]_vars

(***************************************************************************)
(* Properties of one poll cycle.  The record of the cycle (frames, results, *)
(* published) is complete when main() is in its inter-cycle sleep.         *)
(***************************************************************************)
StatusMessage(s) == [topic |-> "status", payload |-> s]
IsPrefix(a, b) == Len(a) <= Len(b) /\ a = SubSeq(b, 1, Len(a))
StatusPayloads ==
    {published[i].payload : i \in {j \in 1..Len(published) : published[j].topic = "status"}}
\* main() holds the final decision of the cycle in status, confidence, full_frame.
Decided == pc \in {"publish", "alert", "sleep"}
SomeResultIsError == \E i \in 1..Len(results) : results[i][1] = "error"

\* C1: in a cycle in which any classification (1st, 2nd or 3rd analyze_gate
\* call) returned Error, nothing is published: no status, no alert.
C1_ErrorAbortsCycle == SomeResultIsError => published = <<>>

\* C2: every value published on the gate status topic is open, closed or
\* unknown; "error" is never published.
C2_PublishedStatusDomain == StatusPayloads \subseteq {"open", "closed", "unknown"}

\* C3: first classification Open and the confirmation capture fails: the
\* final status is Unknown, no third capture and no second classification is
\* made, "unknown" is what is published, and no alert is published.
C3_Case ==
    /\ Len(results) >= 1 /\ results[1][1] = "open"
    /\ Len(frames) >= 2 /\ frames[2] = NoFrame
C3_ConfirmCaptureFailure ==
    C3_Case =>
        /\ Len(frames) = 2 /\ Len(results) = 1
        /\ pc \in {"publish", "sleep", "done"}
        /\ Decided => status = "unknown"
        /\ IsPrefix(published, <<StatusMessage("unknown")>>)
        /\ pc = "publish" => published = <<>>
        /\ pc = "sleep" => published = <<StatusMessage("unknown")>>
C3_Witness ==
    C3_Case /\ pc = "sleep" /\ published = <<StatusMessage("unknown")>>

\* C4: first and second classification both Open: the final decision is
\* Open, its confidence is the second classification's, its frame is the
\* second frame, and no third capture is made.
C4_Case ==
    /\ Len(results) >= 2 /\ results[1][1] = "open" /\ results[2][1] = "open"
C4_ConfirmedOpenUsesSecond ==
    C4_Case =>
        /\ Len(frames) = 2 /\ Len(results) = 2
        /\ Decided =>
             /\ status = "open"
             /\ confidence = results[2][2]
             /\ full_frame = frames[2]

\* C5: first Open, second Closed or Unknown, tiebreak capture succeeds: the
\* final status, confidence and frame are those of the third classification
\* and the third frame, whatever the third result is.
C5_Case ==
    /\ Len(results) = 3 /\ results[1][1] = "open"
    /\ results[2][1] \in {"closed", "unknown"}
    /\ Len(frames) = 3 /\ frames[3] # NoFrame
C5_TiebreakDecides ==
    (C5_Case /\ Decided) =>
        /\ status = results[3][1]
        /\ confidence = results[3][2]
        /\ full_frame = frames[3]
C5_Witness ==
    /\ C5_Case /\ pc = "publish"
    /\ results[2] = <<"closed", 100>> /\ results[3] = <<"open", 85>>
    /\ frames[3] # frames[2] /\ full_frame = frames[3]

\* C6: first Open, second not Open, tiebreak capture fails: the cycle goes
\* on to publish; the final status, confidence and frame are those of the
\* second classification and the second frame; that status is what is
\* published, and no alert is published.
C6_Case ==
    /\ Len(results) >= 2 /\ results[1][1] = "open" /\ results[2][1] # "open"
    /\ Len(frames) = 3 /\ frames[3] = NoFrame
C6_TiebreakCaptureFailure ==
    C6_Case =>
        /\ Len(results) = 2
        /\ pc \in {"publish", "sleep", "done"}
        /\ Decided =>
             /\ status = results[2][1]
             /\ confidence = results[2][2]
             /\ full_frame = frames[2]
        /\ IsPrefix(published, <<StatusMessage(results[2][1])>>)
        /\ pc = "sleep" => published = <<StatusMessage(results[2][1])>>
C6_Witness ==
    /\ C6_Case /\ pc = "sleep"
    /\ results[2] = <<"closed", 100>>
    /\ published = <<StatusMessage("closed")>>

\* C7: first classification Closed or Unknown (after the threshold): that
\* result is final and is what is published, with exactly one capture and
\* one classification in the cycle, and no alert.
C7_Case == Len(results) >= 1 /\ results[1][1] \in {"closed", "unknown"}
C7_FirstNonOpenIsFinal ==
    C7_Case =>
        /\ Len(frames) = 1 /\ Len(results) = 1
        /\ pc \in {"publish", "sleep", "done"}
        /\ Decided => (status = results[1][1] /\ confidence = results[1][2])
        /\ IsPrefix(published, <<StatusMessage(results[1][1])>>)
        /\ pc = "publish" => published = <<>>
        /\ pc = "sleep" => published = <<StatusMessage(results[1][1])>>
C7_Witness ==
    /\ C7_Case /\ pc = "sleep"
    /\ results = <<(<<"closed", 100>>)>>
    /\ published = <<StatusMessage("closed")>>

\* C8: the first capture of a cycle fails: no classification, no oracle call
\* and no publication happen in the cycle; the process keeps running, goes
\* to the inter-cycle sleep, and the sleep is followed by the next cycle's
\* capture unless a KeyboardInterrupt ends the process.
C8_Case == Len(frames) >= 1 /\ frames[1] = NoFrame
C8_Skipped ==
    C8_Case =>
        /\ frames = <<NoFrame>>
        /\ results = <<>> /\ published = <<>> /\ oracle_calls = 0
        /\ \/ pc = "sleep" /\ exit_code = -1
           \/ pc = "done" /\ interrupted_at[1] = "sleep"
C8_PrimaryCaptureFailureSkipsCycle ==
    /\ []C8_Skipped
    /\ [][(C8_Case /\ pc = "sleep" /\ interrupted_at' = <<>>)
            => (pc' = "capture1" /\ exit_code' = -1 /\ frames' = <<>>)]_vars
C8_Witness == C8_Case /\ pc = "sleep" /\ exit_code = -1

(***************************************************************************)
(* Properties of one analyze_gate call.  While the call runs (apc is       *)
(* "call" or "backoff") and when it has just returned (apc = "done"),      *)
(* calls, sleeps and outcome describe it; its result is the last of        *)
(* results.                                                                *)
(***************************************************************************)
InAnalyze == apc \in {"call", "backoff", "done"}
LastResult == results[Len(results)]
LinearBackoff(n) == [i \in 1..n |-> 60 * i]
RateLimited(o) ==
    o.kind = "raise" /\ (o.e.has429 \/ o.e.hasResourceExhausted)
OtherFailure(o) ==
    \/ o.kind = "raise" /\ ~o.e.has429 /\ ~o.e.hasResourceExhausted
    \/ o.kind = "reply" /\ parse_gate_response(o.r)[1] = "raise"
Succeeded(o) == o.kind = "reply" /\ parse_gate_response(o.r)[1] = "ok"

\* C9: a rate-limit error on attempt n (n = 1..max_retries) is followed by a
\* sleep of 60*n seconds and, while attempts remain, by the next attempt; the
\* oracle is called at most max_retries times; when all max_retries attempts
\* are rate-limited the sleeps are 60, 120, ..., 60*max_retries in that order
\* and the result is Error; when an attempt succeeds the result is the parsed
\* and gated result of its reply.
C9_Attempts ==
    InAnalyze =>
        /\ calls <= max_retries
        /\ sleeps = LinearBackoff(Len(sleeps))
        /\ apc = "call" => (calls = attempt /\ Len(sleeps) = attempt
                            /\ attempt < max_retries)
        /\ apc = "backoff" => (RateLimited(outcome) /\ calls = attempt + 1
                               /\ Len(sleeps) = calls)
        /\ (apc = "done" /\ RateLimited(outcome)) =>
              /\ calls = max_retries
              /\ sleeps = LinearBackoff(max_retries)
              /\ LastResult = <<"error", 0>>
        /\ (apc = "done" /\ Succeeded(outcome)) =>
              /\ Len(sleeps) = calls - 1
              /\ LET p == parse_gate_response(outcome.r) IN
                 LastResult = (IF p[3] < confidence_threshold
                               THEN <<"unknown", p[3]>> ELSE <<p[2], p[3]>>)
C9_RateLimitRetry ==
    /\ []C9_Attempts
    /\ [][(apc = "backoff" /\ interrupted_at' = <<>>) =>
            IF attempt + 1 < max_retries
            THEN /\ apc' = "call" /\ attempt' = attempt + 1
                 /\ sleeps' = sleeps /\ results' = results /\ pc' = pc
            ELSE /\ apc' = "done" /\ sleeps' = sleeps
                 /\ results' = Append(results, <<"error", 0>>)]_vars
C9_Witness ==
    /\ apc = "done" /\ RateLimited(outcome)
    /\ calls = 3 /\ sleeps = <<60, 120, 180>>
    /\ LastResult = <<"error", 0>>

\* C10: a failure of an attempt that is not a rate-limit error returns Error
\* at once: analyze_gate has returned, no sleep was made for that attempt and
\* no further oracle call follows it.
C10_OtherFailureReturnsError ==
    (InAnalyze /\ OtherFailure(outcome)) =>
        /\ apc = "done"
        /\ LastResult = <<"error", 0>>
        /\ Len(sleeps) = calls - 1
C10_Witness ==
    /\ apc = "done" /\ outcome.kind = "raise"
    /\ ~outcome.e.has429 /\ ~outcome.e.hasResourceExhausted
    /\ calls = 2 /\ sleeps = <<60>> /\ LastResult = <<"error", 0>>

(***************************************************************************)
(* Properties of the classifier client (ClassifierSpec).                   *)
(***************************************************************************)
\* analyze_gate has run on its own and returned.
Analyzed == arg.fn = "analyze_gate" /\ ret # <<>>
\* parse_gate_response has run on its own and returned or raised.
Parsed == arg.fn = "parse_gate_response" /\ ret # <<>>

\* C11: for every parsed (status, confidence) and every threshold T,
\* analyze_gate returns (unknown, confidence) when confidence < T, whatever
\* the parsed status, and (status, confidence) unchanged when
\* confidence >= T; so an Open result of analyze_gate has confidence >= T.
C11_ThresholdGating ==
    Analyzed =>
        LET p == parse_gate_response(arg.r) IN
        /\ (p[1] = "ok" /\ p[3] < arg.threshold) => ret = <<"unknown", p[3]>>
        /\ (p[1] = "ok" /\ p[3] >= arg.threshold) => ret = <<p[2], p[3]>>
        /\ ret[1] = "open" => ret[2] >= arg.threshold

\* An OPEN reply one point under the threshold came back Unknown.
C11_Witness ==
    /\ Analyzed
    /\ arg.threshold = 70
    /\ parse_gate_response(arg.r) = Ok("open", 69)
    /\ ret = <<"unknown", 69>>

\* C13: an oracle reply that was returned without a failure never comes back
\* from analyze_gate as Error: whatever its status and confidence fields
\* are (missing, null, non-string, non-numeric, out of range), the result
\* is open, closed or unknown.
C13_ReplyNeverError ==
    Analyzed => ret[1] \in {"open", "closed", "unknown"}

\* The status words in the letter cases of the model, and their lower case.
StatusWords == {"OPEN", "open", "CLOSED", "Closed", "UNKNOWN", "unknown"}
LowerCased(w) ==
    CASE w \in {"OPEN", "open"} -> "open"
      [] w \in {"CLOSED", "Closed"} -> "closed"
      [] w \in {"UNKNOWN", "unknown"} -> "unknown"

\* The text is a JSON object with a status word and an integer confidence.
WellFormed(r) ==
    /\ r.whole.t = "obj"
    /\ r.whole.status.t = "str" /\ r.whole.status.v \in StatusWords
    /\ r.whole.confidence.t = "int"

\* C14: for a well-formed JSON object whose status is OPEN, CLOSED or
\* UNKNOWN in any letter case and whose confidence is an integer c,
\* parse_gate_response returns the lower-case status and min(max(c, 0), 100).
C14_WellFormedJson ==
    (Parsed /\ WellFormed(arg.r)) =>
        LET c == arg.r.whole.confidence.v IN
        ret = <<"ok", LowerCased(arg.r.whole.status.v),
                IF c < 0 THEN 0 ELSE IF c > 100 THEN 100 ELSE c>>

\* {"status": "Closed", "confidence": -10} was parsed to (closed, 0).
C14_Witness ==
    /\ Parsed /\ WellFormed(arg.r)
    /\ arg.r.whole.status.v = "Closed" /\ arg.r.whole.confidence.v < 0
    /\ ret = <<"ok", "closed", 0>>

\* A parse tier yields a result: the JSON value is an object whose status is
\* a status word (or absent, for the whole text: it defaults to UNKNOWN) and
\* whose confidence converts to an integer.
WholeYields(r) ==
    /\ r.whole.t = "obj"
    /\ \/ r.whole.status.t = "missing"
       \/ r.whole.status.t = "str" /\ r.whole.status.v \in StatusWords
    /\ r.whole.confidence.t \in {"int", "missing"}
EmbeddedYields(r) ==
    /\ r.match.t = "obj"
    /\ r.match.status.t = "str" /\ r.match.status.v \in StatusWords
    /\ r.match.confidence.t \in {"int", "missing"}

\* C15: when neither the whole-text JSON parse nor the embedded-JSON search
\* yields a result, parse_gate_response returns (open, 50) if the upper-cased
\* text contains OPEN, else (closed, 50) if it contains CLOSED, else
\* (unknown, 0).
C15_KeywordFallback ==
    (Parsed /\ ~WholeYields(arg.r) /\ ~EmbeddedYields(arg.r)) =>
        ret = IF arg.r.hasOpen THEN <<"ok", "open", 50>>
              ELSE IF arg.r.hasClosed THEN <<"ok", "closed", 50>>
              ELSE <<"ok", "unknown", 0>>

(***************************************************************************)
(* Properties of the cycle as a whole.                                     *)
(***************************************************************************)
\* The payloads published on one topic in the current cycle, in order.
PayloadsOn(topic) ==
    LET OnTopic(m) == m.topic = topic
        msgs == SelectSeq(published, OnTopic)
    IN  [i \in 1..Len(msgs) |-> msgs[i].payload]

\* The status a cycle publishes, from its capture outcomes f and its
\* classification results r alone; <<>> when it publishes none.
StatusFor(f, r) ==
    IF f[1] = NoFrame \/ r[1][1] = "error" THEN <<>>
    ELSE IF r[1][1] # "open" THEN <<r[1][1]>>
    ELSE IF f[2] = NoFrame THEN <<"unknown">>
    ELSE IF r[2][1] = "open" THEN <<"open">>
    ELSE IF f[3] = NoFrame THEN <<r[2][1]>>
    ELSE <<r[3][1]>>

\* C16: the status a cycle publishes, and whether it sends an alert, are a
\* function of the cycle's own capture and classification outcomes: in every
\* finished cycle, whatever the earlier cycles did, what is published is
\* StatusFor of the cycle's record, with an alert exactly when that is open.
C16_CycleIsFunctionOfOutcomes ==
    pc = "sleep" =>
        /\ PayloadsOn("status") = StatusFor(frames, results)
        /\ Len(PayloadsOn("alert")) =
               (IF StatusFor(frames, results) = <<"open">> THEN 1 ELSE 0)

\* A later cycle: an earlier one left frame 1 as the latest snapshot, this
\* one confirmed an open gate on frame 2 and its snapshot was not written.
C16_Witness ==
    /\ pc = "sleep"
    /\ latest_snapshot = 1 /\ full_frame = 2
    /\ PayloadsOn("status") = <<"open">>
    /\ PayloadsOn("alert") = <<"None">>

\* The classifications of the current cycle that returned Open (after gating).
OpenResults == {i \in 1..Len(results) : results[i][1] = "open"}

\* C19: an alert, and the status "open", is published in a cycle only if at
\* least two distinct classifications of that cycle returned Open after the
\* threshold gating: the 1st and the 2nd, or the 1st and the 3rd.
C19_NoAlertOnSingleObservation ==
    ("open" \in StatusPayloads \/ PayloadsOn("alert") # <<>>) =>
        /\ Cardinality(OpenResults) >= 2
        /\ OpenResults \in {{1, 2}, {1, 3}}
        /\ \A i \in OpenResults : results[i][2] >= 70

\* The 2nd classification said closed, the 3rd open: the alert went out.
C19_Witness ==
    /\ OpenResults = {1, 3} /\ results[2][1] = "closed"
    /\ PayloadsOn("status") = <<"open">> /\ Len(PayloadsOn("alert")) = 1

\* C20: a cycle publishes at most one status message and at most one alert;
\* an alert is published exactly when the published status is open (for
\* the finished cycle), the status message comes before the alert, and the
\* frame saved for the alert is the frame of the classification that
\* produced the final Open: the 2nd or the 3rd frame, never the 1st.
C20_PublicationOrder ==
    LET final == Len(results) IN
    /\ Len(PayloadsOn("status")) <= 1 /\ Len(PayloadsOn("alert")) <= 1
    /\ PayloadsOn("alert") # <<>> =>
          /\ Len(published) = 2
          /\ published[1] = [topic |-> "status", payload |-> "open"]
          /\ published[2].topic = "alert"
    /\ (pc = "sleep" /\ PayloadsOn("status") = <<"open">>) => Len(PayloadsOn("alert")) = 1
    /\ pc = "alert" =>
          /\ final \in {2, 3} /\ results[final][1] = "open"
          /\ full_frame = frames[final]
    /\ (PayloadsOn("alert") # <<>> /\ PayloadsOn("alert") # <<"None">>) =>
          /\ final \in {2, 3} /\ results[final][1] = "open"
          /\ latest_snapshot = frames[final]

\* A tiebreak cycle whose 3rd frame differs from the 1st: status, then the
\* alert with the 3rd frame as its snapshot.
C20_Witness ==
    /\ pc = "sleep" /\ Len(results) = 3 /\ frames[3] # frames[1]
    /\ published = <<[topic |-> "status", payload |-> "open"],
                     [topic |-> "alert", payload |-> "/local/gate-monitor/latest.jpg"]>>
    /\ latest_snapshot = frames[3]

(***************************************************************************)
(* Startup and shutdown of main().                                         *)
(***************************************************************************)
\* C12: once "online" is published, an operator interrupt at any point
\* (startup delay, inside a cycle, a retry sleep, the inter-cycle sleep) ends
\* the process with "offline" published last and the bus closed.  The
\* interrupt handling is one step of the model, so the process has ended in
\* every state with interrupted_at set.
C12_GracefulShutdown ==
    (interrupted_at # <<>> /\ liveness # <<>>) =>
        /\ liveness = <<"online", "offline">>
        /\ pc = "done"

\* C17: if rtsp_url or gemini_api_key is missing or empty, the process exits
\* with a non-zero status before the poll loop, with no liveness, status or
\* alert message published and no capture or classification made.
C17_MissingConfigExits ==
    (pc # "load_config" /\ (config.rtsp_url = "" \/ config.gemini_api_key = "")) =>
        /\ pc = "exited" /\ exit_code > 0
        /\ liveness = <<>> /\ published = <<>>
        /\ frames = <<>> /\ results = <<>> /\ oracle_calls = 0

\* The camera URL is configured, the API key is not: exit status 1.
C17_Witness ==
    /\ config.rtsp_url # "" /\ config.gemini_api_key = ""
    /\ pc = "exited" /\ exit_code = 1

\* C18: find_best_model returns an available model that matches the earliest
\* entry of the preference list matched by any available model; when no entry
\* matches, an available "pro" model; failing that, the first available
\* model; and when no model is available or the listing failed it returns
\* none and main() exits non-zero before the poll loop.
C18_ModelSelection ==
    listing # NoListing =>
        LET av == IF listing.t = "ok" THEN AvailableModels(listing.names) ELSE <<>>
            Available(m) == \E i \in 1..Len(av) : av[i] = m
            Prefs == 1..Len(PREFERRED_MODELS)
            SomeMatch(q) == \E i \in 1..Len(av) : StartsWith(av[i], PREFERRED_MODELS[q])
            IsPro(m) == \E i \in 1..Len(m) : m[i] = "pro"
            SomePro == \E i \in 1..Len(av) : IsPro(av[i])
        IN
        /\ (\E q \in Prefs : SomeMatch(q)) =>
              /\ Available(model_name)
              /\ \E q \in Prefs :
                    /\ StartsWith(model_name, PREFERRED_MODELS[q])
                    /\ \A k \in 1..(q - 1) : ~SomeMatch(k)
        /\ (~(\E q \in Prefs : SomeMatch(q)) /\ SomePro) =>
              Available(model_name) /\ IsPro(model_name)
        /\ (~(\E q \in Prefs : SomeMatch(q)) /\ ~SomePro /\ av # <<>>) =>
              model_name = av[1]
        /\ av = <<>> =>
              /\ model_name = NoModel
              /\ pc = "exited" /\ exit_code > 0
              /\ liveness = <<>> /\ published = <<>> /\ frames = <<>>
        /\ av # <<>> => pc # "exited"

\* A 1.5 pro model is listed before a 2.5 flash model: the flash model, which
\* matches the earlier preference entry, is selected and startup goes on.
C18_Witness ==
    /\ listing = Listed(<< <<"models/", "gemini", "1.5", "pro">>,
                           <<"models/", "gemini", "2.5", "flash", "lite">> >>)
    /\ model_name = <<"gemini", "2.5", "flash", "lite">>
    /\ pc = "connect"

(***************************************************************************)
(* Effort and termination of a cycle.                                      *)
(***************************************************************************)
\* The captures, classifications and oracle calls of the current cycle.
C21_Effort ==
    /\ Len(frames) <= 3 /\ Len(results) <= 3
    /\ calls <= max_retries /\ oracle_calls <= 3 * max_retries
    /\ Len(results) <= Len(frames)
    /\ (Len(results) >= 1 /\ results[1][1] # "open") =>
           Len(frames) = 1 /\ Len(results) = 1
    /\ Len(frames) >= 2 => (Len(results) >= 1 /\ results[1][1] = "open")
    /\ Len(frames) >= 3 => (Len(results) >= 2 /\ results[2][1] # "open")

\* C21: every poll cycle terminates: it makes at most 3 captures, at most 3
\* classifications and at most 3 * max_retries oracle calls, exactly 1
\* capture when the first result is not Open, the second capture only after
\* a first Open, the third only after a second classification that is not
\* Open, and it always reaches the inter-cycle sleep (or the process is
\* ended by an operator interrupt).
C21_CycleTerminates ==
    /\ []C21_Effort
    /\ (pc = "capture1") ~> (pc \in {"sleep", "done"})

\* A cycle that used all nine oracle calls and reached the sleep.
C21_Witness ==
    /\ pc = "sleep"
    /\ Len(frames) = 3 /\ Len(results) = 3 /\ oracle_calls = 3 * max_retries

====
